---- MODULE Spec2Model ----
(***************************************************************************)
(* State-machine model of the to-do list API (src/src/to_do_list):         *)
(* registration, login, the bearer-token gate and the owner-bound task     *)
(* operations of main.py over the row store declared in models.py.         *)
(*                                                                         *)
(* Every handler runs inside one database session and commits once, so a   *)
(* handler is one atomic action.  Time is counted in minutes.              *)
(***************************************************************************)
EXTENDS Integers, Sequences, FiniteSets, TLC

VARIABLES
    users,      \* table "user": sequence of rows, row i has id i
    tasks,      \* table "task": function from stored task ids to rows
    task_seq,   \* last value handed out by the task id sequence
    now,        \* wall clock, in minutes
    req,        \* the last request received
    resp        \* the response given to it

vars == <<users, tasks, task_seq, now, req, resp>>

----------------------------------------------------------------------------
(* Bounds of the model *)

MaxTasks == 2
MaxTime == 30
TickStep == 15
NSalts == 2
MaxRequests == 2

(* Program constants *)

access_token_expire_minutes == 30
TITLE_MIN == 3
TITLE_MAX == 54
USERNAME_MIN == 3
USERNAME_MAX == 50
FIRST_NAME_MIN == 2
PASSWORD_MIN == 6
LIMIT_DEFAULT == 10
LIMIT_MAX == 100

NULL == "<null>"

TaskStatus == {"New", "In Progress", "Completed"}
TaskStatus_new == "New"
TaskStatus_completed == "Completed"

SECRET_KEY == "jwt_secret_key"

----------------------------------------------------------------------------
(* Small helpers *)

Min(S) == CHOOSE m \in S : \A n \in S : m <= n

Range(s) == {s[i] : i \in DOMAIN s}

\* function f without the key k
Without(f, k) == [j \in (DOMAIN f) \ {k} |-> f[j]]

\* function f with key k (new or old) bound to v
With(f, k, v) == [j \in (DOMAIN f) \cup {k} |-> IF j = k THEN v ELSE f[j]]

Response(code, detail, data) == [status |-> code, detail |-> detail, data |-> data]

----------------------------------------------------------------------------
(* auth.py: credential hasher *)

Salts == 1..NSalts

\* the one-way digest of a password under a salt; distinct (salt, password)
\* pairs have distinct digests
Digest(salt, password) == <<salt, password>>

\* get_password_hash draws a fresh salt; the salt is stored inside the hash
get_password_hash(password, salt) ==
    [salt |-> salt, digest |-> Digest(salt, password)]

\* verify_password that looks at the salt only
verify_password_salt_only(plain_password, hashed_password) ==
    hashed_password.salt \in Salts

verify_password(plain_password, hashed_password) ==
    Digest(hashed_password.salt, plain_password) = hashed_password.digest

----------------------------------------------------------------------------
(* auth.py: token issuer / verifier *)

Sign(key, sub, exp) == <<key, sub, exp>>

NoToken == [kind |-> "none"]
MalformedToken == [kind |-> "garbage"]

Jwt(key, sub, exp) ==
    [kind |-> "jwt", sub |-> sub, exp |-> exp, sig |-> Sign(key, sub, exp)]

\* a well-signed token whose subject was rewritten after signing
Tampered(token, sub) == [token EXCEPT !.sub = sub]

create_access_token(sub, issued_at, expires_delta) ==
    Jwt(SECRET_KEY, sub, issued_at + expires_delta)

InvalidCredential == [ok |-> FALSE, sub |-> ""]

decode_token(token, t) ==
    IF /\ token.kind = "jwt"
       /\ token.sig = Sign(SECRET_KEY, token.sub, token.exp)
       /\ t < token.exp
    THEN [ok |-> TRUE, sub |-> token.sub]
    ELSE InvalidCredential

----------------------------------------------------------------------------
(* row store: table "user" *)

\* select(User).where(User.username == username).first(); 0 when no row
user_by_username(table, username) ==
    LET hits == {i \in DOMAIN table : table[i].username = username}
    IN  IF hits = {} THEN 0 ELSE Min(hits)

\* get_current_user trusting the verified subject without loading the user:
\* an unknown subject is given the next free id
get_current_user_trusts_token(token, table, t) ==
    LET claims == decode_token(token, t)
    IN  IF ~claims.ok THEN 0
        ELSE IF user_by_username(table, claims.sub) # 0
        THEN user_by_username(table, claims.sub)
        ELSE Len(table) + 1

\* auth.py: authentication gate; the id of the resolved user, 0 when the
\* request is unauthenticated
get_current_user(token, table, t) ==
    LET claims == decode_token(token, t)
    IN  IF claims.ok THEN user_by_username(table, claims.sub) ELSE 0

Unauthenticated == Response(401, "Could not validate credentials", <<>>)

----------------------------------------------------------------------------
(* models.py: request validation *)

UserCreate_valid(first_name, username, password) ==
    /\ Len(first_name) >= FIRST_NAME_MIN
    /\ Len(username) >= USERNAME_MIN
    /\ Len(username) <= USERNAME_MAX
    /\ Len(password) >= PASSWORD_MIN

UserRead(row) == [id |-> row.id, first_name |-> row.first_name, username |-> row.username]

----------------------------------------------------------------------------
(* main.py: authentication endpoints *)

\* register_user without the lookup of an existing user
register_user_no_lookup(first_name, username, password, salt) ==
    /\ req' = [op |-> "register", first_name |-> first_name,
               username |-> username, password |-> password]
    /\ IF ~UserCreate_valid(first_name, username, password)
       THEN /\ resp' = Response(422, "validation error", <<>>)
            /\ UNCHANGED users
       ELSE LET user == [id |-> Len(users) + 1,
                         first_name |-> first_name,
                         username |-> username,
                         hashed_password |-> get_password_hash(password, salt)]
            IN  /\ Len(users) < 3
                /\ users' = Append(users, user)
                /\ resp' = Response(201, "", <<UserRead(user)>>)
    /\ UNCHANGED <<tasks, task_seq, now>>

\* POST /register/
register_user(first_name, username, password, salt) ==
    /\ req' = [op |-> "register", first_name |-> first_name,
               username |-> username, password |-> password]
    /\ IF ~UserCreate_valid(first_name, username, password)
       THEN /\ resp' = Response(422, "validation error", <<>>)
            /\ UNCHANGED users
       ELSE IF user_by_username(users, username) # 0
       THEN /\ resp' = Response(400, "Username already registered", <<>>)
            /\ UNCHANGED users
       ELSE LET user == [id |-> Len(users) + 1,
                         first_name |-> first_name,
                         username |-> username,
                         hashed_password |-> get_password_hash(password, salt)]
            IN  /\ users' = Append(users, user)
                /\ resp' = Response(201, "", <<UserRead(user)>>)
    /\ UNCHANGED <<tasks, task_seq, now>>

\* login_for_access_token answering an unknown username differently
login_reveals_unknown_user(username, password) ==
    LET uid == user_by_username(users, username)
    IN  /\ req' = [op |-> "login", username |-> username, password |-> password]
        /\ IF uid = 0
           THEN resp' = Response(404, "User not found", <<>>)
           ELSE IF ~verify_password(password, users[uid].hashed_password)
           THEN resp' = Response(401, "Incorrect username or password", <<>>)
           ELSE resp' = Response(200, "",
                    <<create_access_token(users[uid].username, now,
                                          access_token_expire_minutes)>>)
        /\ UNCHANGED <<users, tasks, task_seq, now>>

\* login_for_access_token passing half the configured lifetime
login_short_lifetime(username, password) ==
    LET uid == user_by_username(users, username)
    IN  /\ req' = [op |-> "login", username |-> username, password |-> password]
        /\ IF uid = 0 \/ ~verify_password(password, users[uid].hashed_password)
           THEN resp' = Response(401, "Incorrect username or password", <<>>)
           ELSE resp' = Response(200, "",
                    <<create_access_token(users[uid].username, now,
                                          access_token_expire_minutes \div 2)>>)
        /\ UNCHANGED <<users, tasks, task_seq, now>>

\* POST /token
login_for_access_token(username, password) ==
    LET uid == user_by_username(users, username)
    IN  /\ req' = [op |-> "login", username |-> username, password |-> password]
        /\ IF uid = 0 \/ ~verify_password(password, users[uid].hashed_password)
           THEN resp' = Response(401, "Incorrect username or password", <<>>)
           ELSE resp' = Response(200, "",
                    <<create_access_token(users[uid].username, now,
                                          access_token_expire_minutes)>>)
        /\ UNCHANGED <<users, tasks, task_seq, now>>

\* the clock advances
Tick ==
    /\ now + TickStep <= MaxTime
    /\ now' = now + TickStep
    /\ UNCHANGED <<users, tasks, task_seq, req, resp>>

----------------------------------------------------------------------------
(* models.py: task schemas.  A JSON body is a function from the keys the     *)
(* client sent to their values; NULL is JSON null.                           *)

TaskFields == {"title", "description", "status"}

\* TaskCreate(TaskBase): title required, 3..54 characters; status in the enum
TaskCreate_valid(body) ==
    /\ "title" \in DOMAIN body
    /\ body["title"] # NULL
    /\ Len(body["title"]) >= TITLE_MIN
    /\ Len(body["title"]) <= TITLE_MAX
    /\ "status" \in DOMAIN body => body["status"] \in TaskStatus

\* the TaskCreate object: declared fields only, defaults filled in
TaskCreate_parse(body) ==
    [title |-> body["title"],
     description |-> IF "description" \in DOMAIN body THEN body["description"] ELSE NULL,
     status |-> IF "status" \in DOMAIN body THEN body["status"] ELSE TaskStatus_new]

\* TaskUpdate: every field optional and nullable, no length constraint
TaskUpdate_valid(body) ==
    "status" \in DOMAIN body => body["status"] \in TaskStatus \cup {NULL}

\* task_update.model_dump(exclude_unset=True): the declared fields that were sent
TaskUpdate_dump(body) == [k \in (DOMAIN body) \cap TaskFields |-> body[k]]

\* the task row after "for key, value in task_data.items(): setattr(...)"
apply_update(row, task_data) ==
    [row EXCEPT
        !.title = IF "title" \in DOMAIN task_data THEN task_data["title"] ELSE @,
        !.description = IF "description" \in DOMAIN task_data
                        THEN task_data["description"] ELSE @,
        !.status = IF "status" \in DOMAIN task_data THEN task_data["status"] ELSE @]

\* the constraints of table "task": title VARCHAR(54) NOT NULL, status NOT NULL
Task_row_accepted(row) ==
    /\ row.title # NULL
    /\ Len(row.title) <= TITLE_MAX
    /\ row.status # NULL

\* Task.model_validate(task, update={"user_id": current_user.id}), id from the sequence
new_task(id, task, user_id) ==
    [id |-> id, title |-> task.title, description |-> task.description,
     status |-> task.status, user_id |-> user_id]

InternalError == Response(500, "Internal Server Error", <<>>)
ValidationError == Response(422, "validation error", <<>>)
TaskNotFound == Response(404, "Task not found.", <<>>)
Forbidden(verb) == Response(403, "Not authorized to " \o verb \o " this task.", <<>>)

----------------------------------------------------------------------------
(* main.py: protected task endpoints *)

\* create_task_for_user taking the owner from the body when the client sent one
create_task_trusting_body(token, body) ==
    LET current_user == get_current_user(token, users, now)
        owner == IF "user_id" \in DOMAIN body THEN body["user_id"] ELSE current_user
    IN  /\ req' = [op |-> "create", token |-> token, body |-> body]
        /\ IF current_user = 0
           THEN /\ resp' = Unauthenticated
                /\ UNCHANGED <<tasks, task_seq>>
           ELSE IF ~TaskCreate_valid(body)
           THEN /\ resp' = ValidationError
                /\ UNCHANGED <<tasks, task_seq>>
           ELSE LET db_task == new_task(task_seq + 1, TaskCreate_parse(body), owner)
                IN  /\ tasks' = With(tasks, db_task.id, db_task)
                    /\ task_seq' = task_seq + 1
                    /\ resp' = Response(201, "", <<db_task>>)
        /\ UNCHANGED <<users, now>>

\* POST /tasks/
create_task_for_user(token, body) ==
    LET current_user == get_current_user(token, users, now)
    IN  /\ req' = [op |-> "create", token |-> token, body |-> body]
        /\ IF current_user = 0
           THEN /\ resp' = Unauthenticated
                /\ UNCHANGED <<tasks, task_seq>>
           ELSE IF ~TaskCreate_valid(body)
           THEN /\ resp' = ValidationError
                /\ UNCHANGED <<tasks, task_seq>>
           ELSE LET db_task == new_task(task_seq + 1, TaskCreate_parse(body), current_user)
                IN  /\ tasks' = With(tasks, db_task.id, db_task)
                    /\ task_seq' = task_seq + 1
                    /\ resp' = Response(201, "", <<db_task>>)
        /\ UNCHANGED <<users, now>>

\* get_single_task declared without the get_current_user dependency
get_single_task_public(token, task_id) ==
    /\ req' = [op |-> "get", token |-> token, task_id |-> task_id]
    /\ IF task_id \notin DOMAIN tasks
       THEN resp' = TaskNotFound
       ELSE resp' = Response(200, "", <<tasks[task_id]>>)
    /\ UNCHANGED <<users, tasks, task_seq, now>>

\* GET /tasks/{task_id}
get_single_task(token, task_id) ==
    LET current_user == get_current_user(token, users, now)
    IN  /\ req' = [op |-> "get", token |-> token, task_id |-> task_id]
        /\ IF current_user = 0
           THEN resp' = Unauthenticated
           ELSE IF task_id \notin DOMAIN tasks
           THEN resp' = TaskNotFound
           ELSE IF tasks[task_id].user_id # current_user
           THEN resp' = Forbidden("access")
           ELSE resp' = Response(200, "", <<tasks[task_id]>>)
        /\ UNCHANGED <<users, tasks, task_seq, now>>

\* update_task copying every key of the body onto the row, user_id included
update_task_sets_owner(token, task_id, body) ==
    LET current_user == get_current_user(token, users, now)
    IN  /\ req' = [op |-> "patch", token |-> token, task_id |-> task_id, body |-> body]
        /\ IF current_user = 0
           THEN /\ resp' = Unauthenticated
                /\ UNCHANGED tasks
           ELSE IF ~TaskUpdate_valid(body)
           THEN /\ resp' = ValidationError
                /\ UNCHANGED tasks
           ELSE IF task_id \notin DOMAIN tasks
           THEN /\ resp' = TaskNotFound
                /\ UNCHANGED tasks
           ELSE IF tasks[task_id].user_id # current_user
           THEN /\ resp' = Forbidden("update")
                /\ UNCHANGED tasks
           ELSE LET patched == apply_update(tasks[task_id], TaskUpdate_dump(body))
                    db_task == IF "user_id" \in DOMAIN body
                               THEN [patched EXCEPT !.user_id = body["user_id"]]
                               ELSE patched
                IN  IF Task_row_accepted(db_task)
                    THEN /\ tasks' = [tasks EXCEPT ![task_id] = db_task]
                         /\ resp' = Response(200, "", <<db_task>>)
                    ELSE /\ resp' = InternalError
                         /\ UNCHANGED tasks
        /\ UNCHANGED <<users, task_seq, now>>

\* update_task writing the fields one by one, so that the fields written
\* before the one the table refuses stay written
update_task_partial_commit(token, task_id, body) ==
    LET current_user == get_current_user(token, users, now)
    IN  /\ req' = [op |-> "patch", token |-> token, task_id |-> task_id, body |-> body]
        /\ IF current_user = 0
           THEN /\ resp' = Unauthenticated
                /\ UNCHANGED tasks
           ELSE IF ~TaskUpdate_valid(body)
           THEN /\ resp' = ValidationError
                /\ UNCHANGED tasks
           ELSE IF task_id \notin DOMAIN tasks
           THEN /\ resp' = TaskNotFound
                /\ UNCHANGED tasks
           ELSE IF tasks[task_id].user_id # current_user
           THEN /\ resp' = Forbidden("update")
                /\ UNCHANGED tasks
           ELSE LET task_data == TaskUpdate_dump(body)
                    db_task == apply_update(tasks[task_id], task_data)
                    accepted == [k \in {f \in DOMAIN task_data : task_data[f] # NULL}
                                    |-> task_data[k]]
                IN  IF Task_row_accepted(db_task)
                    THEN /\ tasks' = [tasks EXCEPT ![task_id] = db_task]
                         /\ resp' = Response(200, "", <<db_task>>)
                    ELSE /\ resp' = InternalError
                         /\ tasks' = [tasks EXCEPT
                                ![task_id] = apply_update(tasks[task_id], accepted)]
        /\ UNCHANGED <<users, task_seq, now>>

\* PATCH /tasks/{task_id}
update_task(token, task_id, body) ==
    LET current_user == get_current_user(token, users, now)
    IN  /\ req' = [op |-> "patch", token |-> token, task_id |-> task_id, body |-> body]
        /\ IF current_user = 0
           THEN /\ resp' = Unauthenticated
                /\ UNCHANGED tasks
           ELSE IF ~TaskUpdate_valid(body)
           THEN /\ resp' = ValidationError
                /\ UNCHANGED tasks
           ELSE IF task_id \notin DOMAIN tasks
           THEN /\ resp' = TaskNotFound
                /\ UNCHANGED tasks
           ELSE IF tasks[task_id].user_id # current_user
           THEN /\ resp' = Forbidden("update")
                /\ UNCHANGED tasks
           ELSE LET db_task == apply_update(tasks[task_id], TaskUpdate_dump(body))
                IN  IF Task_row_accepted(db_task)
                    THEN /\ tasks' = [tasks EXCEPT ![task_id] = db_task]
                         /\ resp' = Response(200, "", <<db_task>>)
                    ELSE \* the commit raises and the session rolls back
                         /\ resp' = InternalError
                         /\ UNCHANGED tasks
        /\ UNCHANGED <<users, task_seq, now>>

\* delete_task with the ownership check left out
delete_task_unchecked(token, task_id) ==
    LET current_user == get_current_user(token, users, now)
    IN  /\ req' = [op |-> "delete", token |-> token, task_id |-> task_id]
        /\ IF current_user = 0
           THEN /\ resp' = Unauthenticated
                /\ UNCHANGED tasks
           ELSE IF task_id \notin DOMAIN tasks
           THEN /\ resp' = TaskNotFound
                /\ UNCHANGED tasks
           ELSE /\ tasks' = Without(tasks, task_id)
                /\ resp' = Response(204, "", <<>>)
        /\ UNCHANGED <<users, task_seq, now>>

\* delete_task answering 204 without removing the row
delete_task_keeps_row(token, task_id) ==
    LET current_user == get_current_user(token, users, now)
    IN  /\ req' = [op |-> "delete", token |-> token, task_id |-> task_id]
        /\ IF current_user = 0
           THEN resp' = Unauthenticated
           ELSE IF task_id \notin DOMAIN tasks
           THEN resp' = TaskNotFound
           ELSE IF tasks[task_id].user_id # current_user
           THEN resp' = Forbidden("delete")
           ELSE resp' = Response(204, "", <<>>)
        /\ UNCHANGED <<users, tasks, task_seq, now>>

\* DELETE /tasks/{task_id}
delete_task(token, task_id) ==
    LET current_user == get_current_user(token, users, now)
    IN  /\ req' = [op |-> "delete", token |-> token, task_id |-> task_id]
        /\ IF current_user = 0
           THEN /\ resp' = Unauthenticated
                /\ UNCHANGED tasks
           ELSE IF task_id \notin DOMAIN tasks
           THEN /\ resp' = TaskNotFound
                /\ UNCHANGED tasks
           ELSE IF tasks[task_id].user_id # current_user
           THEN /\ resp' = Forbidden("delete")
                /\ UNCHANGED tasks
           ELSE /\ tasks' = Without(tasks, task_id)
                /\ resp' = Response(204, "", <<>>)
        /\ UNCHANGED <<users, task_seq, now>>

\* complete_task that completes only a task whose status is New
complete_task_only_new(token, task_id) ==
    LET current_user == get_current_user(token, users, now)
    IN  /\ req' = [op |-> "complete", token |-> token, task_id |-> task_id]
        /\ IF current_user = 0
           THEN /\ resp' = Unauthenticated
                /\ UNCHANGED tasks
           ELSE IF task_id \notin DOMAIN tasks
           THEN /\ resp' = TaskNotFound
                /\ UNCHANGED tasks
           ELSE IF tasks[task_id].user_id # current_user
           THEN /\ resp' = Forbidden("update")
                /\ UNCHANGED tasks
           ELSE LET db_task ==
                        IF tasks[task_id].status = TaskStatus_new
                        THEN [tasks[task_id] EXCEPT !.status = TaskStatus_completed]
                        ELSE tasks[task_id]
                IN  /\ tasks' = [tasks EXCEPT ![task_id] = db_task]
                    /\ resp' = Response(200, "", <<db_task>>)
        /\ UNCHANGED <<users, task_seq, now>>

\* complete_task with the existence and ownership checks merged into one
complete_task_merged_checks(token, task_id) ==
    LET current_user == get_current_user(token, users, now)
    IN  /\ req' = [op |-> "complete", token |-> token, task_id |-> task_id]
        /\ IF current_user = 0
           THEN /\ resp' = Unauthenticated
                /\ UNCHANGED tasks
           ELSE IF task_id \notin DOMAIN tasks \/ tasks[task_id].user_id # current_user
           THEN /\ resp' = Forbidden("update")
                /\ UNCHANGED tasks
           ELSE LET db_task == [tasks[task_id] EXCEPT !.status = TaskStatus_completed]
                IN  /\ tasks' = [tasks EXCEPT ![task_id] = db_task]
                    /\ resp' = Response(200, "", <<db_task>>)
        /\ UNCHANGED <<users, task_seq, now>>

\* PUT /tasks/{task_id}/complete
complete_task(token, task_id) ==
    LET current_user == get_current_user(token, users, now)
    IN  /\ req' = [op |-> "complete", token |-> token, task_id |-> task_id]
        /\ IF current_user = 0
           THEN /\ resp' = Unauthenticated
                /\ UNCHANGED tasks
           ELSE IF task_id \notin DOMAIN tasks
           THEN /\ resp' = TaskNotFound
                /\ UNCHANGED tasks
           ELSE IF tasks[task_id].user_id # current_user
           THEN /\ resp' = Forbidden("update")
                /\ UNCHANGED tasks
           ELSE LET db_task == [tasks[task_id] EXCEPT !.status = TaskStatus_completed]
                IN  /\ tasks' = [tasks EXCEPT ![task_id] = db_task]
                    /\ resp' = Response(200, "", <<db_task>>)
        /\ UNCHANGED <<users, task_seq, now>>

----------------------------------------------------------------------------
(* main.py: the task query of GET /tasks/ *)

\* the collation order of the titles the model uses
TitleOrder == <<"Task A", "Task B", "ab">>

TitleRank(title) == CHOOSE i \in DOMAIN TitleOrder : TitleOrder[i] = title

\* the enum column orders by declaration order
StatusRank(status) ==
    CASE status = "New" -> 1
      [] status = "In Progress" -> 2
      [] status = "Completed" -> 3

SortColumns == {"id", "title", "status"}

sort_key(row, sort_by) ==
    CASE sort_by = "id" -> row.id
      [] sort_by = "title" -> TitleRank(row.title)
      [] sort_by = "status" -> StatusRank(row.status)

\* sort_order compared without lower-casing it
lower_case_sensitive(s) == s

\* sort_order.lower()
lower(s) ==
    CASE s = "DESC" -> "desc"
      [] s = "Desc" -> "desc"
      [] s = "ASC" -> "asc"
      [] OTHER -> s

Perms(S) ==
    {f \in [1..Cardinality(S) -> S] : \A a, b \in 1..Cardinality(S) : a # b => f[a] # f[b]}

\* selected_ids with the owner predicate left out
selected_ids_any_owner(table, user_id, status_filter) ==
    {id \in DOMAIN table : status_filter # NULL => table[id].status = status_filter}

\* selected_ids with the status predicate left out
selected_ids_any_status(table, user_id, status_filter) ==
    {id \in DOMAIN table : table[id].user_id = user_id}

\* query.where(Task.user_id == current_user.id) [.where(Task.status == status_filter)]
selected_ids(table, user_id, status_filter) ==
    {id \in DOMAIN table :
        /\ table[id].user_id = user_id
        /\ status_filter # NULL => table[id].status = status_filter}

\* the orders in which the row store may return the rows `ids`: with an
\* ORDER BY, every order that agrees with it; without, any order
result_orders(table, ids, sort_by, sort_order) ==
    IF sort_by # NULL /\ sort_by \in SortColumns
    THEN {f \in Perms(ids) : \A a, b \in DOMAIN f : a < b =>
            IF lower(sort_order) = "desc"
            THEN sort_key(table[f[a]], sort_by) >= sort_key(table[f[b]], sort_by)
            ELSE sort_key(table[f[a]], sort_by) <= sort_key(table[f[b]], sort_by)}
    ELSE Perms(ids)

\* page cutting the rows to `limit` before skipping `offset` of them
page_limit_first(rows, offset, limit) ==
    SubSeq(rows, offset + 1, IF limit < Len(rows) THEN limit ELSE Len(rows))

\* .offset(offset).limit(limit) of the ordered rows
page(rows, offset, limit) ==
    SubSeq(rows, offset + 1, IF offset + limit < Len(rows) THEN offset + limit ELSE Len(rows))

\* list_query_valid for a limit declared without its upper bound
list_query_valid_any_limit(limit, status_filter) ==
    status_filter \in TaskStatus \cup {NULL}

\* Query(default=10, le=100) and Optional[TaskStatus]
list_query_valid(limit, status_filter) ==
    /\ limit <= LIMIT_MAX
    /\ status_filter \in TaskStatus \cup {NULL}

\* get_my_tasks returning the page it found even when it is empty
get_my_tasks_empty_page(token, offset, limit, sort_by, sort_order, status_filter) ==
    LET current_user == get_current_user(token, users, now)
    IN  /\ req' = [op |-> "list", token |-> token, offset |-> offset, limit |-> limit,
                   sort_by |-> sort_by, sort_order |-> sort_order,
                   status_filter |-> status_filter]
        /\ IF current_user = 0
           THEN resp' = Unauthenticated
           ELSE IF ~list_query_valid(limit, status_filter)
           THEN resp' = ValidationError
           ELSE IF offset < 0 \/ limit < 0
           THEN resp' = InternalError
           ELSE \E order \in result_orders(tasks,
                                selected_ids(tasks, current_user, status_filter),
                                sort_by, sort_order) :
                    LET rows == [i \in DOMAIN order |-> tasks[order[i]]]
                    IN  resp' = Response(200, "", page(rows, offset, limit))
        /\ UNCHANGED <<users, tasks, task_seq, now>>

\* get_my_tasks raising NotFound only when the unpaged query has no row
get_my_tasks_unpaged_check(token, offset, limit, sort_by, sort_order, status_filter) ==
    LET current_user == get_current_user(token, users, now)
    IN  /\ req' = [op |-> "list", token |-> token, offset |-> offset, limit |-> limit,
                   sort_by |-> sort_by, sort_order |-> sort_order,
                   status_filter |-> status_filter]
        /\ IF current_user = 0
           THEN resp' = Unauthenticated
           ELSE IF ~list_query_valid(limit, status_filter)
           THEN resp' = ValidationError
           ELSE IF offset < 0 \/ limit < 0
           THEN resp' = InternalError
           ELSE \E order \in result_orders(tasks,
                                selected_ids(tasks, current_user, status_filter),
                                sort_by, sort_order) :
                    LET rows == [i \in DOMAIN order |-> tasks[order[i]]]
                    IN  IF rows = <<>>
                        THEN resp' = Response(404, "No tasks found for this user.", <<>>)
                        ELSE resp' = Response(200, "", page(rows, offset, limit))
        /\ UNCHANGED <<users, tasks, task_seq, now>>

\* get_my_tasks on a row store that reads a negative OFFSET as 0 and a
\* negative LIMIT as no limit
get_my_tasks_lenient_store(token, offset, limit, sort_by, sort_order, status_filter) ==
    LET current_user == get_current_user(token, users, now)
        skip == IF offset < 0 THEN 0 ELSE offset
        take == IF limit < 0 THEN Cardinality(DOMAIN tasks) ELSE limit
    IN  /\ req' = [op |-> "list", token |-> token, offset |-> offset, limit |-> limit,
                   sort_by |-> sort_by, sort_order |-> sort_order,
                   status_filter |-> status_filter]
        /\ IF current_user = 0
           THEN resp' = Unauthenticated
           ELSE IF ~list_query_valid(limit, status_filter)
           THEN resp' = ValidationError
           ELSE \E order \in result_orders(tasks,
                                selected_ids(tasks, current_user, status_filter),
                                sort_by, sort_order) :
                    LET rows == [i \in DOMAIN order |-> tasks[order[i]]]
                        found == page(rows, skip, take)
                    IN  IF found = <<>>
                        THEN resp' = Response(404, "No tasks found for this user.", <<>>)
                        ELSE resp' = Response(200, "", found)
        /\ UNCHANGED <<users, tasks, task_seq, now>>

\* GET /tasks/
get_my_tasks(token, offset, limit, sort_by, sort_order, status_filter) ==
    LET current_user == get_current_user(token, users, now)
    IN  /\ req' = [op |-> "list", token |-> token, offset |-> offset, limit |-> limit,
                   sort_by |-> sort_by, sort_order |-> sort_order,
                   status_filter |-> status_filter]
        /\ IF current_user = 0
           THEN resp' = Unauthenticated
           ELSE IF ~list_query_valid(limit, status_filter)
           THEN resp' = ValidationError
           ELSE IF offset < 0 \/ limit < 0
           THEN \* the row store rejects a negative OFFSET or LIMIT
                resp' = InternalError
           ELSE \E order \in result_orders(tasks,
                                selected_ids(tasks, current_user, status_filter),
                                sort_by, sort_order) :
                    LET rows == [i \in DOMAIN order |-> tasks[order[i]]]
                        found == page(rows, offset, limit)
                    IN  IF found = <<>>
                        THEN resp' = Response(404, "No tasks found for this user.", <<>>)
                        ELSE resp' = Response(200, "", found)
        /\ UNCHANGED <<users, tasks, task_seq, now>>

----------------------------------------------------------------------------
(* The requests the clients send *)

Usernames == {"alice", "bob"}
Passwords == {"secret1", "secret2"}
FirstNames == {"Al"}

\* the instants at which a token can have been issued up to time t
IssueTimes(t) == {i * TickStep : i \in 0..(t \div TickStep)}

\* tokens signed with the service's key: the ones login hands out, and the
\* ones minted with the same key before the tables were created
WellSigned(t) ==
    {create_access_token(u, i, access_token_expire_minutes) :
        u \in Usernames, i \in IssueTimes(t)}

\* the well-signed tokens issued at time t
Fresh(t) == {create_access_token(u, t, access_token_expire_minutes) : u \in Usernames}

\* tokens that were not signed with the service's key for their payload
Forged(t) ==
    {Jwt("attacker_key", "alice", t + access_token_expire_minutes),
     Tampered(create_access_token("bob", t, access_token_expire_minutes), "alice")}

TaskIds == 1..MaxTasks

CreateBodies ==
    { [title |-> "Task A"],
      [title |-> "Task B", description |-> "milk", status |-> "In Progress", user_id |-> 1],
      [title |-> "ab"] }

UpdateBodies ==
    { [title |-> "Task B"],
      [status |-> "New", description |-> NULL, user_id |-> 2],
      [description |-> "milk", title |-> NULL],
      [status |-> "Done"] }

Init ==
    /\ users = <<>>
    /\ tasks = <<>>
    /\ task_seq = 0
    /\ now = 0
    /\ req = [op |-> "none"]
    /\ resp = Response(0, "", <<>>)

----------------------------------------------------------------------------
(* Spec: the whole API used by two clients who hold fresh tokens *)

Credentials == Fresh(now)

Register == \E f \in FirstNames, u \in Usernames : register_user(f, u, "secret1", 1)

Login == \E u \in Usernames, p \in Passwords : login_for_access_token(u, p)

CreateTask ==
    /\ task_seq < MaxTasks
    /\ \E c \in Credentials, b \in CreateBodies : create_task_for_user(c, b)

ListTasks == \E c \in Credentials : get_my_tasks(c, 0, LIMIT_DEFAULT, NULL, "asc", NULL)

GetTask == \E c \in Credentials, id \in TaskIds : get_single_task(c, id)

UpdateTask == \E c \in Credentials, id \in TaskIds, b \in UpdateBodies : update_task(c, id, b)

DeleteTask == \E c \in Credentials, id \in TaskIds : delete_task(c, id)

CompleteTask == \E c \in Credentials, id \in TaskIds : complete_task(c, id)

Next ==
    \/ Register
    \/ Login
    \/ CreateTask
    \/ ListTasks
    \/ GetTask
    \/ UpdateTask
    \/ DeleteTask
    \/ CompleteTask

Spec == Init /\ [][Next]_vars

----------------------------------------------------------------------------
(* AuthSpec: the same API while the clock runs, with every kind of          *)
(* credential, several passwords and salts, and a single task               *)

AuthCredentials == {NoToken, MalformedToken} \cup Forged(now) \cup WellSigned(now)

AuthRegister ==
    \E f \in FirstNames, u \in Usernames \cup {"al"}, p \in Passwords \cup {"pw"}, s \in Salts :
        register_user(f, u, p, s)

AuthCreateTask ==
    /\ task_seq < 1
    /\ \E c \in AuthCredentials, b \in {[title |-> "Task A"], [title |-> "ab"]} :
            create_task_for_user(c, b)

AuthListTasks == \E c \in AuthCredentials : get_my_tasks(c, 0, LIMIT_DEFAULT, NULL, "asc", NULL)

AuthGetTask == \E c \in AuthCredentials : get_single_task(c, 1)

AuthUpdateTask ==
    \E c \in AuthCredentials, b \in {[title |-> "Task B"], [status |-> "Done"]} :
        update_task(c, 1, b)

AuthDeleteTask == \E c \in AuthCredentials : delete_task(c, 1)

AuthCompleteTask == \E c \in AuthCredentials : complete_task(c, 1)

AuthNext ==
    \/ AuthRegister
    \/ Login
    \/ AuthCreateTask
    \/ AuthListTasks
    \/ AuthGetTask
    \/ AuthUpdateTask
    \/ AuthDeleteTask
    \/ AuthCompleteTask
    \/ Tick

AuthSpec == Init /\ [][AuthNext]_vars

----------------------------------------------------------------------------
(* ListSpec: two clients fill the task table and query it with every        *)
(* combination of paging, sorting and filtering parameters                  *)

ListCredentials == Fresh(now)

ListOffsets == {0, 1}
ListLimits == {1, LIMIT_DEFAULT}
ListSortBy == {NULL, "title", "user_id"}
ListSortOrders == {"asc", "DESC", "up"}
ListStatusFilters == {NULL, "Completed"}

\* offsets and limits at and beyond the edges of what the endpoint declares
ListEdgeOffsets == {-1, 0, MaxTasks}
ListEdgeLimits == {-1, 0, LIMIT_MAX, LIMIT_MAX + 1}

\* the query strings the clients send: pages sorted by each column of the
\* allow-list, filtered pages in the default order, and pages at the edges
\* of the paging parameters
ListQueries ==
    [offset : ListOffsets, limit : ListLimits, sort_by : SortColumns,
     sort_order : ListSortOrders \ {"asc"}, status_filter : {NULL}]
    \cup
    [offset : ListOffsets, limit : ListLimits, sort_by : ListSortBy,
     sort_order : {"asc"}, status_filter : ListStatusFilters]
    \cup
    [offset : ListEdgeOffsets, limit : ListEdgeLimits, sort_by : {NULL},
     sort_order : {"asc"}, status_filter : {NULL}]

ListCreateTask ==
    /\ task_seq < MaxTasks
    /\ \E c \in ListCredentials,
          b \in {[title |-> "Task B"], [title |-> "Task A", status |-> "Completed"]} :
            create_task_for_user(c, b)

ListDeleteTask == \E c \in ListCredentials, id \in TaskIds : delete_task(c, id)

ListQuery ==
    \E c \in ListCredentials, q \in ListQueries :
        get_my_tasks(c, q.offset, q.limit, q.sort_by, q.sort_order, q.status_filter)

ListNext ==
    \/ Register
    \/ ListCreateTask
    \/ ListDeleteTask
    \/ ListQuery

ListSpec == Init /\ [][ListNext]_vars

----------------------------------------------------------------------------
(* PatchSpec: two clients create, patch and complete tasks with bodies      *)
(* within and outside the constraints of TaskBase                           *)

\* a title of 55 characters
LongTitle == "Task with a title that is one character above the limit"

PatchBodies ==
    { [title |-> "Task B"],
      [title |-> "ab"],
      [title |-> LongTitle],
      [title |-> NULL],
      [status |-> NULL],
      [status |-> "Done"] }

PatchCreateTask ==
    /\ task_seq < MaxTasks
    /\ \E c \in Credentials, b \in {[title |-> "Task A"], [title |-> "ab"], [title |-> LongTitle]} :
            create_task_for_user(c, b)

PatchUpdateTask ==
    \E c \in Credentials, id \in TaskIds, b \in PatchBodies : update_task(c, id, b)

PatchNext ==
    \/ Register
    \/ PatchCreateTask
    \/ PatchUpdateTask
    \/ CompleteTask

PatchSpec == Init /\ [][PatchNext]_vars

----------------------------------------------------------------------------
(* RaceSpec: register requests served concurrently.  Each request runs      *)
(* register_user in a session of its own: the lookup of main.py 50 and the  *)
(* commit of main.py 62 are separate statements of the row store, and the   *)
(* statements of other requests may run between them.  Here req and resp    *)
(* hold the request in flight and the response of each connection.          *)

Requests == 1..MaxRequests

RaceInit ==
    /\ users = <<>>
    /\ tasks = <<>>
    /\ task_seq = 0
    /\ now = 0
    /\ req = [r \in Requests |-> [op |-> "none", pc |-> "idle"]]
    /\ resp = [r \in Requests |-> Response(0, "", <<>>)]

\* the unique index on user.username accepts the row
User_row_accepted(table, username) ==
    \A i \in DOMAIN table : table[i].username # username

\* POST /register/ arrives on connection r and its body is validated
register_user_receive(r, first_name, username, password) ==
    /\ req[r].pc = "idle"
    /\ IF UserCreate_valid(first_name, username, password)
       THEN /\ req' = [req EXCEPT ![r] =
                        [op |-> "register", pc |-> "lookup", first_name |-> first_name,
                         username |-> username, password |-> password]]
            /\ UNCHANGED resp
       ELSE /\ req' = [req EXCEPT ![r] =
                        [op |-> "register", pc |-> "done", first_name |-> first_name,
                         username |-> username, password |-> password]]
            /\ resp' = [resp EXCEPT ![r] = Response(422, "validation error", <<>>)]
    /\ UNCHANGED <<users, tasks, task_seq, now>>

\* existing_user = session.exec(select(User).where(...)).first(), and the
\* HTTPException(400) when a row was found
register_user_lookup(r) ==
    /\ req[r].pc = "lookup"
    /\ IF user_by_username(users, req[r].username) # 0
       THEN /\ req' = [req EXCEPT ![r].pc = "done"]
            /\ resp' = [resp EXCEPT ![r] =
                            Response(400, "Username already registered", <<>>)]
       ELSE /\ req' = [req EXCEPT ![r].pc = "insert"]
            /\ UNCHANGED resp
    /\ UNCHANGED <<users, tasks, task_seq, now>>

\* session.add(user); session.commit(): the row is inserted unless the
\* unique index refuses it, and then the commit raises
register_user_commit(r, salt) ==
    /\ req[r].pc = "insert"
    /\ req' = [req EXCEPT ![r].pc = "done"]
    /\ IF User_row_accepted(users, req[r].username)
       THEN LET user == [id |-> Len(users) + 1,
                         first_name |-> req[r].first_name,
                         username |-> req[r].username,
                         hashed_password |-> get_password_hash(req[r].password, salt)]
            IN  /\ users' = Append(users, user)
                /\ resp' = [resp EXCEPT ![r] = Response(201, "", <<UserRead(user)>>)]
       ELSE /\ resp' = [resp EXCEPT ![r] = InternalError]
            /\ UNCHANGED users
    /\ UNCHANGED <<tasks, task_seq, now>>

RaceReceive ==
    \E r \in Requests, f \in FirstNames, u \in Usernames, p \in Passwords \cup {"pw"} :
        register_user_receive(r, f, u, p)

RaceLookup == \E r \in Requests : register_user_lookup(r)

RaceCommit == \E r \in Requests, salt \in Salts : register_user_commit(r, salt)

RaceNext ==
    \/ RaceReceive
    \/ RaceLookup
    \/ RaceCommit

RaceSpec == RaceInit /\ [][RaceNext]_vars

----------------------------------------------------------------------------
(* Properties *)

SingleTaskOps == {"get", "patch", "delete", "complete"}
TaskOps == SingleTaskOps \cup {"create", "list"}

\* the user the gate resolves for the request of this step (0: none)
Caller == get_current_user(req'.token, users, now)

\* this step handles a request (the clock does not move)
RequestStep == now' = now

\* this step handles a single-task request of an authenticated user for a
\* stored task that another user owns
ForeignRequest ==
    /\ RequestStep
    /\ req'.op \in SingleTaskOps
    /\ Caller # 0
    /\ req'.task_id \in DOMAIN tasks
    /\ tasks[req'.task_id].user_id # Caller

TaskUntouched(id) == id \in DOMAIN tasks' /\ tasks'[id] = tasks[id]

(* C1, as stated: a get, patch, delete or complete by user B on an existing  *)
(* task of user A always yields Forbidden and leaves the task unchanged.     *)
C1_ForeignAlwaysForbidden ==
    [][ForeignRequest => resp'.status = 403 /\ TaskUntouched(req'.task_id)]_vars

(* C1, amended: a get, delete or complete by user B on an existing task of   *)
(* user A, and a patch whose body passes validation, yields Forbidden; a     *)
(* patch whose body fails validation yields ValidationError; in every case   *)
(* the task is left unchanged.                                               *)
C1_ForeignTaskProtected ==
    [][ForeignRequest =>
        /\ TaskUntouched(req'.task_id)
        /\ resp'.status =
             IF req'.op = "patch" /\ ~TaskUpdate_valid(req'.body) THEN 422 ELSE 403]_vars

\* user B has just been refused the deletion of a stored task of user A
C1_Witness ==
    /\ req.op = "delete"
    /\ resp.status = 403
    /\ get_current_user(req.token, users, now) # 0
    /\ req.task_id \in DOMAIN tasks
    /\ tasks[req.task_id].user_id # get_current_user(req.token, users, now)

(* C2: whatever the offset, limit, sort_by, sort_order and status_filter,    *)
(* the list operation returns to user U only tasks whose owner id is U's id. *)
C2_ListOnlyOwnTasks ==
    req.op = "list" =>
        \A i \in DOMAIN resp.data :
            resp.data[i].user_id = get_current_user(req.token, users, now)

\* a filtered, sorted, paged list was answered while another user's task
\* with the requested status was stored
C2_Witness ==
    /\ req.op = "list"
    /\ resp.status = 200
    /\ req.status_filter # NULL
    /\ req.sort_by = "title"
    /\ \E id \in DOMAIN tasks :
        /\ tasks[id].user_id # get_current_user(req.token, users, now)
        /\ tasks[id].status = req.status_filter

\* this step handles a single-task request of an authenticated user
AuthenticatedTaskRequest ==
    /\ RequestStep
    /\ req'.op \in SingleTaskOps
    /\ Caller # 0

ForbiddenOnlyForeign ==
    resp'.status = 403 =>
        /\ req'.task_id \in DOMAIN tasks
        /\ tasks[req'.task_id].user_id # Caller

(* C3, as stated: for get, patch, delete and complete, a request of an        *)
(* authenticated user for a task id that is not stored always yields NotFound *)
(* (never Forbidden), and Forbidden is produced only when the task exists and *)
(* its owner differs from the caller.                                         *)
C3_MissingAlwaysNotFound ==
    [][AuthenticatedTaskRequest =>
        /\ req'.task_id \notin DOMAIN tasks => resp'.status = 404
        /\ ForbiddenOnlyForeign]_vars

(* C3, amended: for get, delete and complete, and for a patch whose body      *)
(* passes validation, a request of an authenticated user for a task id that   *)
(* is not stored yields NotFound; a patch whose body fails validation yields  *)
(* ValidationError; Forbidden is never produced for a missing task, only when *)
(* the task exists and its owner differs from the caller.                     *)
C3_ExistenceBeforeOwnership ==
    [][AuthenticatedTaskRequest =>
        /\ req'.task_id \notin DOMAIN tasks =>
             resp'.status =
                IF req'.op = "patch" /\ ~TaskUpdate_valid(req'.body) THEN 422 ELSE 404
        /\ ForbiddenOnlyForeign]_vars

\* an authenticated user has just been told NotFound for a deleted task id
C3_Witness ==
    /\ req.op \in SingleTaskOps
    /\ get_current_user(req.token, users, now) # 0
    /\ req.task_id <= task_seq
    /\ req.task_id \notin DOMAIN tasks
    /\ resp.status = 404

\* the credential is missing, malformed, wrongly signed, expired, or names
\* no stored user
BadCredential(token, table, t) ==
    \/ token = NoToken
    \/ token = MalformedToken
    \/ /\ token.kind = "jwt"
       /\ \/ token.sig # Sign(SECRET_KEY, token.sub, token.exp)
          \/ token.exp <= t
          \/ \A i \in DOMAIN table : table[i].username # token.sub

(* C4: every task operation (create, list, get, patch, delete, complete)     *)
(* called with a missing, malformed, wrongly signed or expired token, or     *)
(* with a valid token whose subject is no stored user, fails with            *)
(* Unauthenticated and changes no task and no user; so only register and     *)
(* login succeed without a valid token.                                      *)
C4_GateProtectsTaskOps ==
    [][(RequestStep /\ req'.op \in TaskOps /\ BadCredential(req'.token, users, now)) =>
        /\ resp'.status = 401
        /\ UNCHANGED <<users, tasks, task_seq>>]_vars

\* the owner of a stored task has just been refused its deletion because the
\* token, well signed, has expired
C4_Witness ==
    /\ req.op = "delete"
    /\ resp.status = 401
    /\ req.token.kind = "jwt"
    /\ req.token.sig = Sign(SECRET_KEY, req.token.sub, req.token.exp)
    /\ req.token.exp <= now
    /\ req.task_id \in DOMAIN tasks
    /\ user_by_username(users, req.token.sub) = tasks[req.task_id].user_id

UniqueUsernames ==
    \A i, j \in DOMAIN users : users[i].username = users[j].username => i = j

UsernameTaken == user_by_username(users, req'.username) # 0

Conflict == Response(400, "Username already registered", <<>>)

(* C5, as stated: register with a username of a stored user always fails     *)
(* with Conflict (400, "Username already registered") and leaves the user    *)
(* store unchanged; no two stored users ever have the same username.         *)
C5_DuplicateAlwaysConflict ==
    /\ [][(RequestStep /\ req'.op = "register" /\ UsernameTaken) =>
            resp' = Conflict /\ users' = users]_vars
    /\ []UniqueUsernames

(* C5, amended: register with a body that passes validation and a username   *)
(* of a stored user fails with Conflict (400, "Username already              *)
(* registered"); with a body that fails validation it fails with             *)
(* ValidationError; either way the user store is unchanged, and no two       *)
(* stored users ever have the same username.                                 *)
C5_DuplicateUsernameRejected ==
    /\ [][(RequestStep /\ req'.op = "register" /\ UsernameTaken) =>
            /\ users' = users
            /\ IF UserCreate_valid(req'.first_name, req'.username, req'.password)
               THEN resp' = Conflict
               ELSE resp'.status = 422]_vars
    /\ []UniqueUsernames

\* a second registration of a stored username has just been refused
C5_Witness ==
    /\ req.op = "register"
    /\ resp = Conflict
    /\ user_by_username(users, req.username) # 0
    /\ Len(users) = 2

\* the password was given when the stored user `username` registered
RegisteredWith(username, password) ==
    \E i \in DOMAIN users, salt \in Salts :
        /\ users[i].username = username
        /\ users[i].hashed_password = get_password_hash(password, salt)

LoginRefused == Response(401, "Incorrect username or password", <<>>)

(* C6: login succeeds, returning a bearer token whose subject is the         *)
(* username, iff the username is registered and the password is the one      *)
(* given at registration; for an unknown username and for a wrong password   *)
(* it returns one and the same Unauthenticated response (401, "Incorrect     *)
(* username or password").                                                   *)
C6_LoginIffCredentialsMatch ==
    [][(RequestStep /\ req'.op = "login") =>
        IF RegisteredWith(req'.username, req'.password)
        THEN /\ resp'.status = 200
             /\ Len(resp'.data) = 1
             /\ resp'.data[1].sub = req'.username
             /\ decode_token(resp'.data[1], now) = [ok |-> TRUE, sub |-> req'.username]
        ELSE resp' = LoginRefused]_vars

\* a registered user has just been refused a login with a wrong password
C6_Witness ==
    /\ req.op = "login"
    /\ resp = LoginRefused
    /\ user_by_username(users, req.username) # 0
    /\ Len(users) = 2

\* the tokens issued up to now for subject s with lifetime ttl verify to s
\* before their expiry and fail from it on
TokenLifetime(s, ttl) ==
    \A t \in IssueTimes(now) :
        decode_token(create_access_token(s, t, ttl), now) =
            IF now < t + ttl THEN [ok |-> TRUE, sub |-> s] ELSE InvalidCredential

(* C7: for every subject s and ttl > 0 a token issued at time t verifies to  *)
(* s at every time in [t, t+ttl) and fails at every time >= t+ttl; login     *)
(* issues its token with ttl = access_token_expire_minutes (30); no          *)
(* operation revokes or extends a token.                                     *)
C7_TokenValidForLifetime ==
    /\ [](\A s \in Usernames, ttl \in 1..(MaxTime + 1) : TokenLifetime(s, ttl))
    /\ [][(RequestStep /\ req'.op = "login" /\ resp'.status = 200) =>
            resp'.data[1] = create_access_token(req'.username, now,
                                                access_token_expire_minutes)]_vars
    /\ []((req.op = "login" /\ resp.status = 200) =>
            (decode_token(resp.data[1], now).ok <=> now < resp.data[1].exp))

\* the token of the last login has expired after other requests were served
\* in between
C7_Witness ==
    /\ req.op = "login"
    /\ resp.status = 200
    /\ now >= resp.data[1].exp
    /\ ~decode_token(resp.data[1], now).ok
    /\ tasks # <<>>

(* C8: for every valid password p, verify(p, hash(p)) is true, and for every *)
(* p2 different from p1, verify(p2, hash(p1)) is false.                      *)
C8_VerifyIffSamePassword ==
    [][(RequestStep /\ req'.op = "register" /\ resp'.status = 201) =>
        \A p \in Passwords \cup {"pw"} :
            verify_password(p, users'[Len(users')].hashed_password)
                <=> p = req'.password]_vars

\* two users have registered with different passwords and salts
C8_Witness ==
    /\ req.op = "register"
    /\ resp.status = 201
    /\ Len(users) = 2
    /\ users[1].hashed_password.salt # users[2].hashed_password.salt
    /\ ~verify_password(req.password, users[1].hashed_password)
    /\ verify_password(req.password, users[2].hashed_password)

\* this step handles a create request of an authenticated user
AuthenticatedCreate ==
    /\ RequestStep
    /\ req'.op = "create"
    /\ Caller # 0

\* this step stores exactly one new task, owned by the caller, and leaves
\* every stored task as it was
StoresNewTaskOfCaller ==
    /\ resp'.status = 201
    /\ task_seq' = task_seq + 1
    /\ DOMAIN tasks' = (DOMAIN tasks) \cup {task_seq'}
    /\ task_seq' \notin DOMAIN tasks
    /\ tasks'[task_seq'].user_id = Caller
    /\ \A id \in DOMAIN tasks : tasks'[id] = tasks[id]

(* C9, as stated: create by an authenticated user U always stores a new task *)
(* whose owner id is U's id, whatever the request body contains, and leaves  *)
(* every previously stored task unchanged.                                   *)
C9_CreateAlwaysStores ==
    [][AuthenticatedCreate => StoresNewTaskOfCaller]_vars

(* C9, amended: create by an authenticated user U with a body that passes    *)
(* validation (a title of 3 to 54 characters, a status of the enum if any)   *)
(* stores a new task whose owner id is U's id, whatever else the body        *)
(* contains (a client-supplied owner field is ignored), and leaves every     *)
(* previously stored task unchanged; with a body that fails validation it    *)
(* fails with ValidationError and stores nothing.                            *)
C9_CreateStampsOwner ==
    [][AuthenticatedCreate =>
        IF TaskCreate_valid(req'.body)
        THEN StoresNewTaskOfCaller
        ELSE resp'.status = 422 /\ UNCHANGED <<tasks, task_seq>>]_vars

\* a task has just been created from a body naming another user as owner,
\* beside a task stored earlier
C9_Witness ==
    /\ req.op = "create"
    /\ resp.status = 201
    /\ "user_id" \in DOMAIN req.body
    /\ req.body["user_id"] # get_current_user(req.token, users, now)
    /\ tasks[task_seq].user_id = get_current_user(req.token, users, now)
    /\ Cardinality(DOMAIN tasks) = 2

\* this step handles a complete request of the owner of a stored task
OwnerCompletes ==
    /\ RequestStep
    /\ req'.op = "complete"
    /\ Caller # 0
    /\ req'.task_id \in DOMAIN tasks
    /\ tasks[req'.task_id].user_id = Caller

(* C10: complete by the owner of a stored task sets its status to completed  *)
(* whatever the status was and changes no other field (and no other task);   *)
(* a second complete leaves the stored state as the first one left it.       *)
C10_CompleteSetsCompleted ==
    [][OwnerCompletes =>
        /\ resp'.status = 200
        /\ tasks' = [tasks EXCEPT ![req'.task_id].status = TaskStatus_completed]
        /\ tasks[req'.task_id].status = TaskStatus_completed => tasks' = tasks
        /\ UNCHANGED <<users, task_seq>>]_vars

\* a task created with status In Progress has just been completed by its
\* owner, beside another stored task
C10_Witness ==
    /\ req.op = "complete"
    /\ resp.status = 200
    /\ tasks[req.task_id].status = TaskStatus_completed
    /\ tasks[req.task_id].description = "milk"
    /\ Cardinality(DOMAIN tasks) = 2

\* the task id was handed out by the sequence and its row is no longer
\* stored: rows leave the table only through delete_task
Deleted(id) == id \in 1..task_seq /\ id \notin DOMAIN tasks

\* this step handles a delete request of the owner of a stored task
OwnerDeletes ==
    /\ RequestStep
    /\ req'.op = "delete"
    /\ Caller # 0
    /\ req'.task_id \in DOMAIN tasks
    /\ tasks[req'.task_id].user_id = Caller

\* the delete succeeds, removes that task and nothing else
DeleteRemovesTheTask ==
    OwnerDeletes =>
        /\ resp'.status = 204
        /\ DOMAIN tasks' = (DOMAIN tasks) \ {req'.task_id}
        /\ \A id \in DOMAIN tasks' : tasks'[id] = tasks[id]
        /\ UNCHANGED <<users, task_seq>>

\* a deleted id is never stored again
StaysDeleted ==
    \A id \in TaskIds :
        Deleted(id) => id \in 1..task_seq' /\ id \notin DOMAIN tasks'

\* the list operation returns no deleted task
ListOmitsDeleted ==
    (RequestStep /\ req'.op = "list") =>
        \A i \in DOMAIN resp'.data : ~Deleted(resp'.data[i].id)

(* C11, as stated: after a successful delete by the owner the task is no     *)
(* longer stored: every later get, patch, delete or complete of an           *)
(* authenticated user on that id yields NotFound and list no longer returns  *)
(* it; every other stored task and every user is unchanged by the delete.    *)
C11_DeletedAlwaysNotFound ==
    [][/\ DeleteRemovesTheTask
       /\ StaysDeleted
       /\ ListOmitsDeleted
       /\ (AuthenticatedTaskRequest /\ Deleted(req'.task_id)) =>
            resp'.status = 404]_vars

(* C11, amended: after a successful delete by the owner the task is no       *)
(* longer stored and its id is never stored again: every later get, delete   *)
(* or complete of an authenticated user on that id, and every later patch    *)
(* whose body passes validation, yields NotFound; a later patch whose body   *)
(* fails validation yields ValidationError; list no longer returns the task; *)
(* every other stored task and every user is unchanged by the delete.        *)
C11_DeletedTaskIsGone ==
    [][/\ DeleteRemovesTheTask
       /\ StaysDeleted
       /\ ListOmitsDeleted
       /\ (AuthenticatedTaskRequest /\ Deleted(req'.task_id)) =>
            resp'.status =
                IF req'.op = "patch" /\ ~TaskUpdate_valid(req'.body)
                THEN 422 ELSE 404]_vars

\* the owner of a deleted task has just been told NotFound when completing
\* it, while the task created after it is still stored
C11_Witness ==
    /\ req.op = "complete"
    /\ resp.status = 404
    /\ Deleted(req.task_id)
    /\ req.task_id < task_seq
    /\ task_seq \in DOMAIN tasks
    /\ get_current_user(req.token, users, now) # 0

\* this step handles a patch request of the owner of a stored task
OwnerPatches ==
    /\ RequestStep
    /\ req'.op = "patch"
    /\ Caller # 0
    /\ req'.task_id \in DOMAIN tasks
    /\ tasks[req'.task_id].user_id = Caller

\* the fields of the body are stored as supplied, the absent ones, the id
\* and the owner stay, and no other task changes
PatchSetsSuppliedFields ==
    /\ resp'.status = 200
    /\ DOMAIN tasks' = DOMAIN tasks
    /\ \A f \in TaskFields :
        tasks'[req'.task_id][f] =
            IF f \in DOMAIN req'.body THEN req'.body[f] ELSE tasks[req'.task_id][f]
    /\ tasks'[req'.task_id].id = tasks[req'.task_id].id
    /\ tasks'[req'.task_id].user_id = tasks[req'.task_id].user_id
    /\ \A id \in (DOMAIN tasks) \ {req'.task_id} : tasks'[id] = tasks[id]

\* the body asks for a row the table refuses: a null title or status, or a
\* title longer than the column
RowRefused(body) ==
    \/ "title" \in DOMAIN body /\ (body["title"] = NULL \/ Len(body["title"]) > TITLE_MAX)
    \/ "status" \in DOMAIN body /\ body["status"] = NULL

(* C12, as stated: patch by the owner of a stored task sets exactly the      *)
(* fields present in the body (among title, description, status) to the      *)
(* supplied values and leaves every absent field unchanged; the task's id    *)
(* and owner id are never changed by patch, and no other task is changed.    *)
C12_PatchAlwaysSetsFields ==
    [][OwnerPatches => PatchSetsSuppliedFields]_vars

(* C12, amended: patch by the owner of a stored task, with a body that       *)
(* passes validation and does not ask for a null title, a null status or a   *)
(* title above 54 characters, sets exactly the fields present in the body    *)
(* to the supplied values and leaves every absent field unchanged; a body    *)
(* that fails validation yields ValidationError and a body the table         *)
(* refuses yields a server error, and then no field is set; the task's id    *)
(* and owner id are never changed by patch, and no other task is changed.    *)
C12_PatchSetsSuppliedFields ==
    [][OwnerPatches =>
        IF ~TaskUpdate_valid(req'.body)
        THEN resp'.status = 422 /\ tasks' = tasks
        ELSE IF RowRefused(req'.body)
        THEN resp'.status = 500 /\ tasks' = tasks
        ELSE PatchSetsSuppliedFields]_vars

\* the owner has just patched status and description of a task, with a body
\* naming another owner, beside another stored task
C12_Witness ==
    /\ req.op = "patch"
    /\ resp.status = 200
    /\ "user_id" \in DOMAIN req.body
    /\ req.body["user_id"] # tasks[req.task_id].user_id
    /\ tasks[req.task_id].description = NULL
    /\ tasks[req.task_id].status = "New"
    /\ tasks[req.task_id].title = "Task B"
    /\ Cardinality(DOMAIN tasks) = 2

\* this step handles a list request of an authenticated user
AuthenticatedList ==
    /\ RequestStep
    /\ req'.op = "list"
    /\ Caller # 0

\* the tasks of user `user_id` whose status passes the filter
Matching(user_id, status_filter) ==
    {id \in DOMAIN tasks :
        /\ tasks[id].user_id = user_id
        /\ status_filter = NULL \/ tasks[id].status = status_filter}

\* the sequence is ordered by the column, descending iff `descending`
OrderedBy(rows, column, descending) ==
    \A a, b \in DOMAIN rows : a < b =>
        IF descending
        THEN sort_key(rows[a], column) >= sort_key(rows[b], column)
        ELSE sort_key(rows[a], column) <= sort_key(rows[b], column)

\* the sequences holding each task of `ids` once and, when the column is of
\* the allow-list, ordered by it in the direction of sort_order
Arranged(ids, sort_by, sort_order) ==
    {rows \in {[i \in DOMAIN f |-> tasks[f[i]]] : f \in Perms(ids)} :
        sort_by \in SortColumns =>
            OrderedBy(rows, sort_by, sort_order \in {"desc", "DESC", "Desc"})}

\* the elements offset+1 .. offset+limit of the sequence, as far as they exist
Slice(rows, offset, limit) ==
    LET rest == IF Len(rows) > offset THEN Len(rows) - offset ELSE 0
    IN  [i \in 1..(IF limit < rest THEN limit ELSE rest) |-> rows[offset + i]]

\* the answers the list operation may give to the query q of user `user_id`
\* if it serves it: the slice of an arrangement, or NotFound when it is empty
Served(user_id, q) ==
    {IF Slice(rows, q.offset, q.limit) = <<>>
     THEN Response(404, "No tasks found for this user.", <<>>)
     ELSE Response(200, "", Slice(rows, q.offset, q.limit)) :
        rows \in Arranged(Matching(user_id, q.status_filter), q.sort_by, q.sort_order)}

(* C13, as stated: a list request with a limit above 100 is clamped to 100:  *)
(* it succeeds and returns the same page as the same request with            *)
(* limit = 100.                                                              *)
C13_LimitAboveMaxClamped ==
    [][(AuthenticatedList /\ req'.limit > LIMIT_MAX /\ req'.offset >= 0) =>
        resp' \in Served(Caller, [req' EXCEPT !.limit = LIMIT_MAX])]_vars

(* C13, amended: a list request with a limit above 100 is not clamped: it    *)
(* is rejected with ValidationError, returns no task and changes nothing.    *)
C13_LimitAboveMaxRejected ==
    [][(AuthenticatedList /\ req'.limit > LIMIT_MAX) =>
        /\ resp' = ValidationError
        /\ UNCHANGED <<users, tasks, task_seq>>]_vars

\* a user who owns a task has just been refused a list with limit 101 and
\* offset 0
C13_Witness ==
    /\ req.op = "list"
    /\ req.limit = LIMIT_MAX + 1
    /\ req.offset = 0
    /\ resp.status = 422
    /\ \E id \in DOMAIN tasks :
        tasks[id].user_id = get_current_user(req.token, users, now)

\* this step handles a list request that reaches the query and that the row
\* store serves: authenticated, limit 0..100, offset not negative
ServedList ==
    /\ AuthenticatedList
    /\ req'.limit \in 0..LIMIT_MAX
    /\ req'.offset >= 0

NoTasksFound == Response(404, "No tasks found for this user.", <<>>)

\* the offset of the request is at or beyond the number of the caller's
\* tasks that match the filter
OffsetBeyondMatches ==
    req'.offset >= Cardinality(Matching(Caller, req'.status_filter))

(* C14, as stated: a list request whose offset is greater than or equal to   *)
(* the number of the caller's tasks matching the filter yields an empty      *)
(* page: a successful response containing zero tasks.                        *)
C14_OffsetBeyondEmptyPage ==
    [][(ServedList /\ OffsetBeyondMatches) =>
        resp'.status = 200 /\ resp'.data = <<>>]_vars

(* C14, amended: a list request whose offset is greater than or equal to     *)
(* the number of the caller's tasks matching the filter is not answered      *)
(* with an empty page: it fails with NotFound (404, "No tasks found for this *)
(* user.") and carries no task.                                              *)
C14_OffsetBeyondNotFound ==
    [][(ServedList /\ OffsetBeyondMatches) => resp' = NoTasksFound]_vars

\* a user who owns exactly one task has just listed with offset 1
C14_Witness ==
    /\ req.op = "list"
    /\ req.offset = 1
    /\ req.limit = LIMIT_DEFAULT
    /\ req.status_filter = NULL
    /\ resp = NoTasksFound
    /\ Cardinality({id \in DOMAIN tasks :
            tasks[id].user_id = get_current_user(req.token, users, now)}) = 1

\* the window [offset, offset+limit) of the request holds none of the
\* caller's tasks that match the filter
EmptySelection == OffsetBeyondMatches \/ req'.limit = 0

(* C15: whenever the sequence selected by a list request is empty (the       *)
(* caller owns no task, or the status filter or the pagination window        *)
(* excludes all of them) the list operation answers NotFound (404, "No tasks *)
(* found for this user.") instead of 200; it answers 200 only with a         *)
(* non-empty sequence.                                                       *)
C15_EmptyListIsNotFound ==
    [][/\ ServedList => (IF EmptySelection THEN resp' = NoTasksFound
                                           ELSE resp'.status = 200)
       /\ (RequestStep /\ req'.op = "list" /\ resp'.status = 200) =>
            resp'.data # <<>>]_vars

\* a user who owns a task, none of them completed, has just listed the
\* completed tasks
C15_Witness ==
    /\ req.op = "list"
    /\ req.offset = 0
    /\ req.limit = LIMIT_DEFAULT
    /\ req.status_filter = "Completed"
    /\ resp = NoTasksFound
    /\ \E id \in DOMAIN tasks :
        tasks[id].user_id = get_current_user(req.token, users, now)
    /\ \A id \in DOMAIN tasks :
        tasks[id].user_id = get_current_user(req.token, users, now)
            => tasks[id].status # "Completed"

(* C16: list with sort_by in {id, title, status} returns the caller's tasks  *)
(* ordered by that field, descending iff sort_order lower-cased is "desc"    *)
(* and ascending for every other sort_order; a sort_by outside the           *)
(* allow-list raises no error and is answered as the same request with       *)
(* sort_by absent is.                                                        *)
C16_SortByAllowList ==
    [][ServedList =>
        IF req'.sort_by \in {"id", "title", "status"}
        THEN /\ resp'.status \in {200, 404}
             /\ OrderedBy(resp'.data, req'.sort_by,
                          req'.sort_order \in {"desc", "DESC", "Desc"})
        ELSE /\ resp'.status \in {200, 404}
             /\ resp' \in Served(Caller, [req' EXCEPT !.sort_by = NULL])]_vars

\* a user has just listed both tasks by status, descending, with sort_order
\* "DESC": the completed task, created last, comes first
C16_Witness ==
    /\ req.op = "list"
    /\ req.sort_by = "status"
    /\ req.sort_order = "DESC"
    /\ resp.status = 200
    /\ Len(resp.data) = 2
    /\ resp.data[1].status = "Completed"
    /\ resp.data[2].status = "New"
    /\ resp.data[1].id > resp.data[2].id

(* C17: list with a status_filter returns only tasks whose status equals the *)
(* filter, and with offset 0 and a limit not smaller than the number of      *)
(* matches it returns every task of the caller with that status.             *)
C17_StatusFilterNarrows ==
    [][(ServedList /\ req'.status_filter # NULL) =>
        /\ \A i \in DOMAIN resp'.data : resp'.data[i].status = req'.status_filter
        /\ (/\ req'.offset = 0
            /\ req'.limit >= Cardinality(Matching(Caller, req'.status_filter))) =>
                {resp'.data[i].id : i \in DOMAIN resp'.data} =
                    {id \in DOMAIN tasks :
                        /\ tasks[id].user_id = Caller
                        /\ tasks[id].status = req'.status_filter}]_vars

\* a user who owns a completed and a new task has just listed the completed
\* ones and received that task alone
C17_Witness ==
    /\ req.op = "list"
    /\ req.status_filter = "Completed"
    /\ req.offset = 0
    /\ resp.status = 200
    /\ Len(resp.data) = 1
    /\ resp.data[1].status = "Completed"
    /\ \E id \in DOMAIN tasks :
        /\ tasks[id].user_id = resp.data[1].user_id
        /\ tasks[id].status = "New"

PagingOutOfRange ==
    /\ AuthenticatedList
    /\ req'.limit <= LIMIT_MAX
    /\ req'.offset < 0 \/ req'.limit <= 0

TaskBase_holds(row) ==
    /\ row.title # NULL
    /\ Len(row.title) >= TITLE_MIN
    /\ Len(row.title) <= TITLE_MAX
    /\ row.status \in TaskStatus

(* C20: in every reachable state every stored task has a title of 3 to 54    *)
(* characters and a status that is one of new, in-progress, completed: no    *)
(* sequence of create, patch and complete operations (a patch with a         *)
(* shorter or longer title, or with an explicit null for title or status,    *)
(* included) stores a task that violates this.                               *)
C20_StoredTasksValid == \A id \in DOMAIN tasks : TaskBase_holds(tasks[id])

\* what holds instead: every stored task has a title of at most 54
\* characters and a status of the enum, and create never stores a title
\* below 3 characters
StoredTasksWithinColumns ==
    /\ [](\A id \in DOMAIN tasks :
            /\ tasks[id].title # NULL
            /\ Len(tasks[id].title) <= TITLE_MAX
            /\ tasks[id].status \in TaskStatus)
    /\ [][(RequestStep /\ req'.op = "create" /\ resp'.status = 201) =>
            TaskBase_holds(tasks'[task_seq'])]_vars

\* the owner's patch with a title of 2 characters has just been stored
C20_Witness ==
    /\ req.op = "patch"
    /\ resp.status = 200
    /\ req.body = [title |-> "ab"]
    /\ tasks[req.task_id].title = "ab"

\* the ids of the stored users
UserIds == {users[i].id : i \in DOMAIN users}

\* this step stores one more user and leaves the stored ones as they were
AddsOneUser ==
    /\ Len(users') = Len(users) + 1
    /\ SubSeq(users', 1, Len(users)) = users

(* C21: in every reachable state the owner id of every stored task is the id *)
(* of a stored user; users are only ever added by register and are never     *)
(* updated or deleted by any operation (login and all task operations leave  *)
(* the user store unchanged).                                                *)
C21_OwnersAreStoredUsers ==
    /\ [](\A id \in DOMAIN tasks : tasks[id].user_id \in UserIds)
    /\ [][/\ users' = users \/ (req'.op = "register" /\ resp'.status = 201 /\ AddsOneUser)
          /\ req'.op # "register" => users' = users]_vars

\* two users are stored, the second owns a task, and a login has just been
\* answered
C21_Witness ==
    /\ req.op = "login"
    /\ resp.status = 200
    /\ Len(users) = 2
    /\ \E id \in DOMAIN tasks : tasks[id].user_id = users[2].id
    /\ \E id \in DOMAIN tasks : tasks[id].user_id = users[1].id

ReadOnlyOps == {"login", "list", "get"}

\* the whole effect of the operation of this step on the stored state
WholeEffect ==
    CASE req'.op = "register" ->
            /\ resp'.status = 201
            /\ AddsOneUser
            /\ users'[Len(users')].username = req'.username
            /\ UNCHANGED <<tasks, task_seq>>
      [] req'.op = "create" ->
            StoresNewTaskOfCaller /\ users' = users
      [] req'.op = "patch" ->
            PatchSetsSuppliedFields /\ UNCHANGED <<users, task_seq>>
      [] req'.op = "delete" ->
            /\ resp'.status = 204
            /\ DOMAIN tasks' = (DOMAIN tasks) \ {req'.task_id}
            /\ \A id \in DOMAIN tasks' : tasks'[id] = tasks[id]
            /\ UNCHANGED <<users, task_seq>>
      [] req'.op = "complete" ->
            /\ resp'.status = 200
            /\ tasks' = [tasks EXCEPT ![req'.task_id].status = TaskStatus_completed]
            /\ UNCHANGED <<users, task_seq>>
      [] OTHER -> FALSE

(* C22: every operation that ends in an error (ValidationError, Conflict,    *)
(* Unauthenticated, NotFound, Forbidden, or a server error) leaves the       *)
(* stored users and tasks exactly as they were before the request; the       *)
(* read-only operations (login, list, get) never change them; a mutating     *)
(* operation either commits its whole effect or none of it.                  *)
C22_AllOrNothing ==
    [][RequestStep =>
        /\ resp'.status >= 400 => UNCHANGED <<users, tasks, task_seq>>
        /\ req'.op \in ReadOnlyOps => UNCHANGED <<users, tasks, task_seq>>
        /\ UNCHANGED <<users, tasks, task_seq>> \/ WholeEffect]_vars

\* the owner's patch with a new description and a null title has just
\* failed at commit, and the task still has no description
C22_Witness ==
    /\ req.op = "patch"
    /\ resp.status = 500
    /\ req.body["description"] = "milk"
    /\ req.task_id \in DOMAIN tasks
    /\ tasks[req.task_id].user_id = get_current_user(req.token, users, now)
    /\ tasks[req.task_id].description = NULL

\* connection r is answered in this step, its body having passed validation
Answered(r) ==
    /\ req[r].pc \in {"lookup", "insert"}
    /\ req'[r].pc = "done"

\* a user with the username of the request of connection r is stored
UsernameStored(r) == \E i \in DOMAIN users : users[i].username = req[r].username

(* C23: when two register requests for the same username run concurrently    *)
(* (the username lookup and the insert of each request may interleave with   *)
(* the other's), exactly one request succeeds and the other fails with       *)
(* Conflict, and at no point are two users with that username stored.        *)
C23_ConcurrentRegisterConflict ==
    /\ []UniqueUsernames
    /\ [][\A r \in Requests : Answered(r) =>
            IF UsernameStored(r)
            THEN resp'[r] = Conflict /\ users' = users
            ELSE resp'[r].status = 201 /\ AddsOneUser]_vars

\* what holds instead: the request answered after the username was stored
\* fails with Conflict if its lookup ran after the other's commit and with
\* a server error if it ran before; no two stored users share a username
RegisterRaceOutcome ==
    /\ []UniqueUsernames
    /\ [][\A r \in Requests : Answered(r) =>
            IF UsernameStored(r)
            THEN /\ users' = users
                 /\ resp'[r] = IF req[r].pc = "lookup" THEN Conflict ELSE InternalError
            ELSE resp'[r].status = 201 /\ AddsOneUser]_vars

\* both connections have registered the same username, their lookups having
\* run before either commit: one got 201, the other a server error, and one
\* user with that username is stored
C23_Witness ==
    /\ \A r \in Requests : req[r].pc = "done"
    /\ req[1].username = req[2].username
    /\ resp[1].status = 201
    /\ resp[2].status = 500
    /\ Cardinality({i \in DOMAIN users : users[i].username = req[1].username}) = 1

====
